---------------------------- MODULE Spec2Model ----------------------------
(***************************************************************************)
(* A model of vincenty-yew: the coordinate parser and the Vincenty inverse *)
(* solver of src/src/vincenty.rs, and the message handler of the yew       *)
(* component of src/src/app.rs.                                            *)
(*                                                                         *)
(* Numbers.  The program computes in IEEE-754 binary64.  TLC has 32-bit    *)
(* integers only, so an f64 is modelled as a fixed-point number: the       *)
(* integer n stands for n / SCALE.  Every arithmetic operator below rounds *)
(* its result to the nearest representable value (ties away from zero), as *)
(* the f64 operations round theirs; the elementary functions are series    *)
(* evaluated in the same arithmetic.  What the model keeps of f64 is the   *)
(* algebra the program relies on (commutativity, x * 1 = x, sin 0 = 0,     *)
(* cos 0 = 1, odd/even symmetry, one rounding per operation); what it does *)
(* not keep is the 53-bit resolution, NaN and the infinities.              *)
(***************************************************************************)
EXTENDS Integers, Sequences, FiniteSets, TLC

\* Fixed-point resolution: n stands for n / SCALE.
SCALE == 1000000

ONE == SCALE

Abs(a) == IF a < 0 THEN -a ELSE a

Sgn(a) == IF a < 0 THEN -1 ELSE 1

Max(a, b) == IF a >= b THEN a ELSE b

\* F(v), with v evaluated once: a `let` whose right-hand side is a value
\* when the body uses it, as a Rust `let` binding is.
Bind(v, F(_)) == CHOOSE r \in {F(w) : w \in {v}} : TRUE

----------------------------------------------------------------------------
(* Wide multiply-divide: a * b / d without leaving 32 bits.                *)

\* Digits of b consumed per step, so that r * Chunk + a * (Chunk - 1) fits.
Chunk(d) == IF d <= 1048576 THEN 1024 ELSE IF d <= 33554432 THEN 32 ELSE 2

\* <<q, r>> with a * b = q * d + r and 0 <= r < d, for 0 <= a < d, b >= 0.
\* One step: from p = <<q, r>> for the digits of b above the lowest to the
\* pair for all of b, where ab is a times the lowest digit and c the base.
MulDivStep[p \in Int \X Int, ab \in Int, c \in Int, d \in Int] ==
    <<p[1] * c + ((p[2] * c + ab) \div d), (p[2] * c + ab) % d>>

MulDivQR[a \in Int, b \in Int, d \in Int] ==
    IF b = 0 THEN <<0, 0>>
    ELSE MulDivStep[MulDivQR[a, b \div Chunk(d), d],
                    a * (b % Chunk(d)), Chunk(d), d]

\* a * b / d rounded to nearest, ties up, for a, b >= 0 and d > 0.
MulDivRound[a \in Int, b \in Int, d \in Int] ==
    LET p == MulDivQR[a % d, b, d]
    IN  (a \div d) * b + p[1] + (IF 2 * p[2] >= d THEN 1 ELSE 0)

\* a / k rounded to nearest, ties away from zero, for an integer k > 0.
RDiv[a \in Int, k \in Int] == Sgn(a) * ((Abs(a) + (k \div 2)) \div k)

\* f64 multiplication and division.
FMul[a \in Int, b \in Int] == Sgn(a) * Sgn(b) * MulDivRound[Abs(a), Abs(b), SCALE]

FDiv[a \in Int, b \in Int] == Sgn(a) * Sgn(b) * MulDivRound[Abs(a), SCALE, Abs(b)]

\* f64::mul_add(a, b, c) = a * b + c with one rounding; c is representable,
\* so rounding a * b + c is rounding a * b and adding c.
mul_add(a, b, c) == FMul[a, b] + c

\* f64::powi(x, 2).
powi2[x \in Int] == FMul[x, x]

----------------------------------------------------------------------------
(* Elementary functions.                                                   *)

PI == MulDivRound[3141593, SCALE, 1000000]

HALF_PI == RDiv[PI, 2]

\* f64::to_radians: x * (PI / 180).
to_radians(x) == RDiv[FMul[x, PI], 180]

\* sin on [0, PI/2]: the Taylor series in Horner form.
SinSmall[x \in Int] ==
    LET x2 == FMul[x, x]
        t7 == ONE - RDiv[x2, 210]
        t6 == ONE - RDiv[FMul[x2, t7], 156]
        t5 == ONE - RDiv[FMul[x2, t6], 110]
        t4 == ONE - RDiv[FMul[x2, t5], 72]
        t3 == ONE - RDiv[FMul[x2, t4], 42]
        t2 == ONE - RDiv[FMul[x2, t3], 20]
        t1 == ONE - RDiv[FMul[x2, t2], 6]
    IN  FMul[x, t1]

\* cos on [0, PI/2].
CosSmall[x \in Int] ==
    LET x2 == FMul[x, x]
        t8 == ONE - RDiv[x2, 240]
        t7 == ONE - RDiv[FMul[x2, t8], 182]
        t6 == ONE - RDiv[FMul[x2, t7], 132]
        t5 == ONE - RDiv[FMul[x2, t6], 90]
        t4 == ONE - RDiv[FMul[x2, t5], 56]
        t3 == ONE - RDiv[FMul[x2, t4], 30]
        t2 == ONE - RDiv[FMul[x2, t3], 12]
    IN  ONE - RDiv[FMul[x2, t2], 2]

\* f64::sin: odd, reduced to [0, PI/2].
FSin[x \in Int] ==
    LET y == Abs(x) % (2 * PI)
        s == IF y > PI THEN -Sgn(x) ELSE Sgn(x)
        z == IF y > PI THEN y - PI ELSE y
    IN  s * SinSmall[IF z > HALF_PI THEN PI - z ELSE z]

\* f64::cos: even, reduced to [0, PI/2].
FCos[x \in Int] ==
    LET y == Abs(x) % (2 * PI)
        z == IF y > PI THEN 2 * PI - y ELSE y
    IN  IF z > HALF_PI THEN -CosSmall[PI - z] ELSE CosSmall[z]

\* The largest magnitude f64::tan is modelled to return (tan of 90 degrees
\* is a large finite f64, whose atan is PI/2).
TAN_LIMIT == 500

\* f64::tan.
FTan[x \in Int] ==
    LET s == FSin[x]
        c == FCos[x]
    IN  IF c = 0 \/ Abs(s) \div Abs(c) >= TAN_LIMIT
        THEN Sgn(s) * Sgn(c) * TAN_LIMIT * SCALE
        ELSE FDiv[s, c]

SQRT3 == MulDivRound[1732051, SCALE, 1000000]

TAN_PI_12 == MulDivRound[267949, SCALE, 1000000]

\* atan on [-tan(PI/12), tan(PI/12)]: the Gregory series in Horner form.
AtanSmall[z \in Int] ==
    LET z2 == FMul[z, z]
        t6 == RDiv[ONE, 11] - FMul[z2, RDiv[ONE, 13]]
        t5 == RDiv[ONE, 9] - FMul[z2, t6]
        t4 == RDiv[ONE, 7] - FMul[z2, t5]
        t3 == RDiv[ONE, 5] - FMul[z2, t4]
        t2 == RDiv[ONE, 3] - FMul[z2, t3]
        t1 == ONE - FMul[z2, t2]
    IN  FMul[z, t1]

\* atan on [0, 1].
AtanUnit[z \in Int] ==
    IF z > TAN_PI_12
    THEN RDiv[PI, 6] + AtanSmall[FDiv[FMul[SQRT3, z] - ONE, SQRT3 + z]]
    ELSE AtanSmall[z]

\* f64::atan.
FAtan[y \in Int] ==
    IF Abs(y) >= TAN_LIMIT * SCALE THEN Sgn(y) * HALF_PI
    ELSE IF Abs(y) > ONE THEN Sgn(y) * (HALF_PI - AtanUnit[FDiv[ONE, Abs(y)]])
    ELSE Sgn(y) * AtanUnit[Abs(y)]

\* f64::atan2(y, x).
FAtan2[y \in Int, x \in Int] ==
    IF y = 0 THEN (IF x >= 0 THEN 0 ELSE PI)
    ELSE IF Abs(x) > Abs(y)
         THEN LET r == AtanUnit[FDiv[Abs(y), Abs(x)]]
              IN  Sgn(y) * (IF x > 0 THEN r ELSE PI - r)
         ELSE LET r == AtanUnit[FDiv[Abs(x), Abs(y)]]
              IN  Sgn(y) * (IF x >= 0 THEN HALF_PI - r ELSE HALF_PI + r)

\* a * a at double resolution: <<hi, lo>> with a * a = hi * SCALE + lo.
SqWide[a \in Int] ==
    LET p == MulDivQR[Abs(a) % SCALE, Abs(a), SCALE]
    IN  <<(Abs(a) \div SCALE) * Abs(a) + p[1], p[2]>>

\* floor((hi * SCALE + lo) / x) for x > 0 and 0 <= lo < SCALE.
WideDivFloor[hi \in Int, lo \in Int, x \in Int] ==
    LET p == MulDivQR[hi % x, SCALE, x]
    IN  (hi \div x) * SCALE + p[1] + ((p[2] + lo) \div x)

\* Newton's iteration for the integer square root of hi * SCALE + lo, from above.
HypotFrom[hi \in Int, lo \in Int, x \in Int] ==
    LET y == (x + WideDivFloor[hi, lo, x]) \div 2
    IN  IF y >= x THEN x ELSE HypotFrom[hi, lo, y]

\* f64::sqrt(f64::powi(a, 2) + f64::powi(b, 2)).  An f64 square keeps its
\* relative precision however small a is; a fixed-point square would flush to
\* zero below 1 / sqrt(SCALE).  The two squares are therefore kept at double
\* resolution, and the result is zero exactly when a and b both are.
Hypot[a \in Int, b \in Int] ==
    LET s1 == SqWide[a]
        s2 == SqWide[b]
        lo == (s1[2] + s2[2]) % SCALE
        hi == s1[1] + s2[1] + ((s1[2] + s2[2]) \div SCALE)
    IN  IF hi = 0 /\ lo = 0 THEN 0 ELSE HypotFrom[hi, lo, Max(hi + 1, SCALE)]

----------------------------------------------------------------------------
(* src/src/vincenty.rs: constants.                                         *)

\* Metres.  Kept as a whole number of metres: RADIUS_AT_EQUATOR * SCALE does
\* not fit 32 bits.
RADIUS_AT_EQUATOR == 6378137

FLATTENING_ELIPSOID == MulDivRound[1000000, SCALE, 298257224]

\* Metres.
RADIUS_AT_POLES == MulDivRound[ONE - FLATTENING_ELIPSOID, RADIUS_AT_EQUATOR, SCALE]

MAX_ITERATIONS == 200

\* 1e-12 is below the model's resolution: the test |d| < 1e-12 is modelled
\* as |d| below the smallest positive representable number.
CONVERGENCE_THRESHOLD == Max(1, SCALE \div 1000000000)

PRECISION == 6

----------------------------------------------------------------------------
(* Values.                                                                 *)

\* Option<f64>.
None == [tag |-> "None"]

Some(v) == [tag |-> "Some", val |-> v]

\* A distance in kilometres at a finer resolution than the angles: the value
\* (-1 if neg) * (m + r / SCALE) / 1000, that is m whole metres and r / SCALE
\* of a metre.
Km(neg, m, r) == [neg |-> neg, m |-> m, r |-> r]

\* 0.0
Zero == Km(FALSE, 0, 0)

GeoCoordinate(lat, lng) == [lat |-> lat, lng |-> lng]

----------------------------------------------------------------------------
(* The state.                                                              *)

VARIABLES
    \* calc_distance / distance / approximate
    pc,             \* where the call is
    c1_text, c2_text,   \* calc_distance's arguments
    parsed,         \* the GeoCoordinates from_str has returned so far
    c1, c2,         \* distance's arguments
    init_lambda, lambda, sin_u1, cos_u1, sin_u2, cos_u2,  \* approximate's
    iter,           \* iterations of the loop body begun
    last,           \* what the last iteration of the body computed
    exit,           \* how approximate returned
    result,         \* distance's return value
    \* App
    src, dst, distance_state,  \* App's fields
    queue,          \* messages sent to the component, not yet handled
    futures,        \* fetches spawned by send_future, not yet completed
    issued,         \* GetDistance messages handled so far
    applied         \* the requests whose SetDistanceFetchState was handled, in order

parseVars == <<c1_text, c2_text, parsed>>

solverVars == <<c1, c2, init_lambda, lambda, sin_u1, cos_u1, sin_u2, cos_u2,
                iter, last, exit, result>>

appVars == <<src, dst, distance_state, queue, futures, issued, applied>>

vars == <<pc, parseVars, solverVars, appVars>>

----------------------------------------------------------------------------
(* src/src/vincenty.rs: round, evaluate.                                   *)

\* 10^n
RECURSIVE Pow10(_)
Pow10(n) == IF n = 0 THEN 1 ELSE 10 * Pow10(n - 1)

\* A round that leaves its argument as it is.
round_unrounded(number, precision) == number

\* round(number, precision): f64::round(number * p) / p with p = 10^precision.
\* number * p counts units of 10^-precision km; f64::round rounds half away
\* from zero, here on the magnitude.  k = p / 1000 such units make a metre.
round(number, precision) ==
    LET k == Pow10(precision - 3)
        u == MulDivRound[number.r, k, SCALE]
    IN  IF u = k
        THEN Km(number.neg, number.m + 1, 0)
        ELSE Km(number.neg, number.m, MulDivRound[u, SCALE, k])

\* (RADIUS_AT_EQUATOR^2 - RADIUS_AT_POLES^2) / RADIUS_AT_POLES^2, computed as
\* ((a - b) / b) * ((a + b) / b): the squares do not fit 32 bits.
SecondEccentricitySq ==
    FMul[MulDivRound[RADIUS_AT_EQUATOR - RADIUS_AT_POLES, SCALE, RADIUS_AT_POLES],
         MulDivRound[RADIUS_AT_EQUATOR + RADIUS_AT_POLES, SCALE, RADIUS_AT_POLES]]

\* evaluate's a.  4096 * SCALE does not fit 32 bits, so the outer product is
\* taken as (usq / 4096) * (inner / 4); scaling by a power of two is exact in
\* f64.
EvalA[usq \in Int] ==
    LET i1 == mul_add(usq, 320 * ONE - 175 * usq, -768 * ONE)
        i2 == 1024 * ONE + RDiv[FMul[usq, i1], 4]
    IN  mul_add(RDiv[usq, 4096], i2, ONE)

\* evaluate's b.
EvalB[usq \in Int] ==
    FMul[RDiv[usq, 1024],
         mul_add(usq, mul_add(usq, 74 * ONE - 47 * usq, -128 * ONE), 256 * ONE)]

\* evaluate's delta_sigma.
DeltaSigma[b \in Int, sin_sigma \in Int, cos2_sigma_m \in Int, cos_sigma \in Int] ==
    FMul[FMul[b, sin_sigma],
         mul_add(RDiv[b, 4],
                 FMul[cos_sigma, mul_add(2 * ONE, powi2[cos2_sigma_m], -ONE)]
                   - FMul[FMul[FMul[RDiv[b, 6], cos2_sigma_m],
                               mul_add(4 * ONE, powi2[sin_sigma], -3 * ONE)],
                          mul_add(4 * ONE, powi2[cos2_sigma_m], -3 * ONE)],
                 cos2_sigma_m)]

\* evaluate: RADIUS_AT_POLES * a * (sigma - delta_sigma) / 1000.0, in km.
evaluate(cos_sqalpha, sin_sigma, cos2_sigma_m, cos_sigma, sigma) ==
    Bind(FMul[cos_sqalpha, SecondEccentricitySq], LAMBDA usq :
    Bind(EvalA[usq], LAMBDA a :
    Bind(EvalB[usq], LAMBDA b :
    Bind(DeltaSigma[b, sin_sigma, cos2_sigma_m, cos_sigma], LAMBDA delta_sigma :
    Bind(FMul[a, sigma - delta_sigma], LAMBDA t :
    Bind(MulDivQR[Abs(t) % SCALE, RADIUS_AT_POLES, SCALE], LAMBDA p :
         Km(t < 0, (Abs(t) \div SCALE) * RADIUS_AT_POLES + p[1], p[2])))))))


----------------------------------------------------------------------------
(* src/src/vincenty.rs: distance and approximate.                          *)

\* The reduced latitude u = atan((1 - f) * tan(to_radians(lat))).
ReducedLatitude(lat) ==
    FAtan[FMul[ONE - FLATTENING_ELIPSOID, FTan[to_radians(lat)]]]

\* A loop over 0..=MAX_ITERATIONS.
LoopRunsInclusive(i) == i <= MAX_ITERATIONS

\* for _ in 0..MAX_ITERATIONS: whether the body runs once more after i runs.
LoopRuns(i) == i < MAX_ITERATIONS

\* sin_sigma with the sign of the second product flipped.
sin_sigma_sum(su1, cu1, su2, cu2, sl, cl) ==
    Hypot[FMul[cu2, sl], FMul[cu1, su2] + FMul[FMul[su1, cu2], cl]]

sin_sigma(su1, cu1, su2, cu2, sl, cl) ==
    Hypot[FMul[cu2, sl], FMul[cu1, su2] - FMul[FMul[su1, cu2], cl]]

\* if sin_sigma == 0.0, in the iteration that i iterations came before.
IsDegenerate(ss, i) == ss = 0

cos_sigma(su1, cu1, su2, cu2, cl) == mul_add(su1, su2, FMul[FMul[cu1, cu2], cl])

sigma(ss, cs) == FAtan2[ss, cs]

sin_alpha(cu1, cu2, sl, ss) == FDiv[FMul[FMul[cu1, cu2], sl], ss]

cos_sqalpha(sa) == ONE - powi2[sa]

cos2_sigma_m(cq, cs, su1, su2) ==
    IF cq = 0 THEN 0 ELSE cs - FDiv[FMul[2 * su1, su2], cq]

\* let c = (FLATTENING_ELIPSOID / 16.0) * cos_sqalpha
\*         * (4.0 + FLATTENING_ELIPSOID - 3.0 * cos_sqalpha);
c(cq) ==
    FMul[FMul[RDiv[FLATTENING_ELIPSOID, 16], cq],
         4 * ONE + FLATTENING_ELIPSOID - 3 * cq]

new_lambda(cc, sa, ss, cs, c2m, sg, l0) ==
    mul_add(FMul[FMul[ONE - cc, FLATTENING_ELIPSOID], sa],
            mul_add(FMul[cc, ss],
                    mul_add(FMul[cc, cs],
                            mul_add(2 * ONE, powi2[c2m], -ONE),
                            c2m),
                    sg),
            l0)

\* A convergence test on the signed difference.
ConvergedSigned(nl, lam) == nl - lam < CONVERGENCE_THRESHOLD

\* if f64::abs(new_lambda - lambda) < CONVERGENCE_THRESHOLD
Converged(nl, lam) == Abs(nl - lam) < CONVERGENCE_THRESHOLD

\* What one iteration of approximate's loop body computes from lambda.  The
\* body returns at sin_sigma == 0.0 before it computes anything else.
Body ==
    Bind(FSin[lambda], LAMBDA sl :
    Bind(FCos[lambda], LAMBDA cl :
    Bind(sin_sigma(sin_u1, cos_u1, sin_u2, cos_u2, sl, cl), LAMBDA ss :
    IF IsDegenerate(ss, iter)
    THEN [lambda |-> lambda, sin_sigma |-> ss, degenerate |-> TRUE,
          cos_sigma |-> 0, sigma |-> 0, sin_alpha |-> 0, cos_sqalpha |-> 0,
          cos2_sigma_m |-> 0, c |-> 0, new_lambda |-> lambda]
    ELSE Bind(cos_sigma(sin_u1, cos_u1, sin_u2, cos_u2, cl), LAMBDA cs :
         Bind(sigma(ss, cs), LAMBDA sg :
         Bind(sin_alpha(cos_u1, cos_u2, sl, ss), LAMBDA sa :
         Bind(cos_sqalpha(sa), LAMBDA cq :
         Bind(cos2_sigma_m(cq, cs, sin_u1, sin_u2), LAMBDA c2m :
         Bind(c(cq), LAMBDA cc :
              [lambda |-> lambda, sin_sigma |-> ss, degenerate |-> FALSE,
               cos_sigma |-> cs, sigma |-> sg, sin_alpha |-> sa,
               cos_sqalpha |-> cq, cos2_sigma_m |-> c2m, c |-> cc,
               new_lambda |->
                   new_lambda(cc, sa, ss, cs, c2m, sg, init_lambda)])))))))))

NoBody == [lambda |-> 0, sin_sigma |-> 0, degenerate |-> FALSE,
           cos_sigma |-> 0, sigma |-> 0, sin_alpha |-> 0, cos_sqalpha |-> 0,
           cos2_sigma_m |-> 0, c |-> 0, new_lambda |-> 0]

\* distance, up to its call of approximate.
distance ==
    /\ pc = "distance"
    /\ \E u1 \in {ReducedLatitude(c1.lat)}, u2 \in {ReducedLatitude(c2.lat)} :
           /\ init_lambda' = to_radians(c2.lng - c1.lng)
           /\ lambda' = init_lambda'
           /\ sin_u1' = FSin[u1]
           /\ cos_u1' = FCos[u1]
           /\ sin_u2' = FSin[u2]
           /\ cos_u2' = FCos[u2]
    /\ pc' = "approximate"
    /\ UNCHANGED <<c1, c2, iter, last, exit, result, parseVars, appVars>>

\* A sin_sigma == 0.0 exit that reports no result.
DegenerateReturnNone == None

\* return Some(0.0);
DegenerateReturn == Some(Zero)

\* An iteration that returns Some(0.0) at sin_sigma == 0.0.
approximate_degenerate ==
    /\ pc = "approximate"
    /\ LoopRuns(iter)
    /\ \E it \in {Body} :
           /\ it.degenerate
           /\ last' = it
    /\ iter' = iter + 1
    /\ result' = DegenerateReturn
    /\ exit' = "degenerate"
    /\ pc' = "done"
    /\ UNCHANGED <<c1, c2, init_lambda, lambda, sin_u1, cos_u1, sin_u2, cos_u2,
                   parseVars, appVars>>

\* An iteration that passes the convergence test and returns the distance.
approximate_converged ==
    /\ pc = "approximate"
    /\ LoopRuns(iter)
    /\ \E it \in {Body} :
           /\ ~it.degenerate
           /\ Converged(it.new_lambda, lambda)
           /\ last' = it
           /\ \E d \in {evaluate(it.cos_sqalpha, it.sin_sigma,
                               it.cos2_sigma_m, it.cos_sigma, it.sigma)} :
                 result' = Some(round(d, PRECISION))
    /\ iter' = iter + 1
    /\ exit' = "converged"
    /\ pc' = "done"
    /\ UNCHANGED <<c1, c2, init_lambda, lambda, sin_u1, cos_u1, sin_u2, cos_u2,
                   parseVars, appVars>>

\* An iteration that fails the convergence test: lambda = new_lambda.
approximate_continue ==
    /\ pc = "approximate"
    /\ LoopRuns(iter)
    /\ \E it \in {Body} :
           /\ ~it.degenerate
           /\ ~Converged(it.new_lambda, lambda)
           /\ last' = it
           /\ lambda' = it.new_lambda
    /\ iter' = iter + 1
    /\ UNCHANGED <<pc, c1, c2, init_lambda, sin_u1, cos_u1, sin_u2, cos_u2,
                   exit, result, parseVars, appVars>>

\* The loop is over: None.
approximate_exhausted ==
    /\ pc = "approximate"
    /\ ~LoopRuns(iter)
    /\ result' = None
    /\ exit' = "exhausted"
    /\ pc' = "done"
    /\ UNCHANGED <<c1, c2, init_lambda, lambda, sin_u1, cos_u1, sin_u2, cos_u2,
                   iter, last, parseVars, appVars>>

----------------------------------------------------------------------------
(* The solver's specification: distance called on a pair of coordinates.   *)

\* Degrees.  0.5 and 179.7 lie next to the antipode of (0, 0), where the
\* iteration does not converge; 179.39845 is a longitude from which the
\* second iteration of an equatorial pair lands on lambda = PI.
Lats == {-90 * SCALE, -45 * SCALE, 0, SCALE \div 2, 45 * SCALE, 90 * SCALE}

Lngs == {-180 * SCALE, 0, 90 * SCALE, 17939845 * (SCALE \div 100000),
         1797 * (SCALE \div 10), 180 * SCALE}

Coordinates == {GeoCoordinate(lat, lng) : lat \in Lats, lng \in Lngs}

ParseIdle ==
    /\ c1_text = <<>>
    /\ c2_text = <<>>
    /\ parsed = <<>>

SolverIdle ==
    /\ init_lambda = 0
    /\ lambda = 0
    /\ sin_u1 = 0
    /\ cos_u1 = 0
    /\ sin_u2 = 0
    /\ cos_u2 = 0
    /\ iter = 0
    /\ last = NoBody
    /\ exit = "running"
    /\ result = None

AppIdle ==
    /\ src = ""
    /\ dst = ""
    /\ distance_state = [state |-> "NotFetching"]
    /\ queue = <<>>
    /\ futures = {}
    /\ issued = 0
    /\ applied = <<>>

Init ==
    /\ pc = "distance"
    /\ c1 \in Coordinates
    /\ c2 \in Coordinates
    /\ SolverIdle
    /\ ParseIdle
    /\ AppIdle

Next ==
    \/ distance
    \/ approximate_degenerate
    \/ approximate_converged
    \/ approximate_continue
    \/ approximate_exhausted

Spec == Init /\ [][Next]_vars

----------------------------------------------------------------------------
(* src/src/vincenty.rs: GeoCoordinate::from_str and calc_distance.         *)

\* The longest text the model gives the parser.
MaxLen == 5

\* A digit, the separator, whitespace, and letters: "nan" spells a number
\* f64's parser accepts, "n" and "a" alone spell none.
Chars == {"1", ",", " ", "n", "a"}

Texts == UNION {[1..n -> Chars] : n \in 0..MaxLen}

\* str::split_once(","): the text before and after the first comma.
FirstComma(s) ==
    IF \E i \in 1..Len(s) : s[i] = ","
    THEN CHOOSE i \in 1..Len(s) : s[i] = "," /\ \A j \in 1..(i - 1) : s[j] # ","
    ELSE 0

split_once(s) ==
    LET i == FirstComma(s)
    IN  IF i = 0 THEN None
        ELSE Some(<<SubSeq(s, 1, i - 1), SubSeq(s, i + 1, Len(s))>>)

\* str::trim: without the leading and trailing whitespace.
RECURSIVE trim_start(_)
trim_start(s) ==
    IF s # <<>> /\ Head(s) = " " THEN trim_start(Tail(s)) ELSE s

RECURSIVE trim_end(_)
trim_end(s) ==
    IF s # <<>> /\ s[Len(s)] = " " THEN trim_end(SubSeq(s, 1, Len(s) - 1)) ELSE s

trim(s) == trim_end(trim_start(s))

\* The value of a string of digits.
RECURSIVE DigitsValue(_)
DigitsValue(s) ==
    IF s = <<>> THEN 0 ELSE 10 * DigitsValue(SubSeq(s, 1, Len(s) - 1)) + 1

\* An f64 as the parser returns it: a finite number (of degrees) or NaN.
Finite(v) == [class |-> "finite", value |-> v]

NaN == [class |-> "nan", value |-> 0]

\* str::parse::<f64>(): Ok(number) or Err.  The text is one or more digits,
\* or "nan"; everything else over Chars is no number (an empty text, a text
\* with a space or a comma inside, a letter that does not spell nan).
parse_f64(s) ==
    IF s # <<>> /\ \A i \in 1..Len(s) : s[i] = "1"
    THEN [ok |-> TRUE, number |-> Finite(DigitsValue(s))]
    ELSE IF s = <<"n", "a", "n">>
    THEN [ok |-> TRUE, number |-> NaN]
    ELSE [ok |-> FALSE, number |-> NaN]

\* GeoCoordinate::from_str.  Its Err type is std::string::ParseError, which
\* has no value: the function returns Ok or panics, at expect("Incorrect
\* format!") with no comma, at unwrap() with a half that is no number.
from_str(s) ==
    LET halves == split_once(s)
    IN  IF halves = None
        THEN [kind |-> "panic", at |-> "expect"]
        ELSE LET lat == parse_f64(trim(halves.val[1]))
                 lng == parse_f64(trim(halves.val[2]))
             IN  IF ~lat.ok \/ ~lng.ok
                 THEN [kind |-> "panic", at |-> "unwrap"]
                 ELSE [kind |-> "Ok",
                       val |-> GeoCoordinate(lat.number, lng.number)]

\* calc_distance: let c1 = GeoCoordinate::from_str(&c1)?;
calc_distance_c1 ==
    /\ pc = "from_str_c1"
    /\ LET r == from_str(c1_text)
       IN  /\ parsed' = <<r>>
           /\ IF r.kind = "Ok"
              THEN /\ c1' = r.val
                   /\ pc' = "from_str_c2"
                   /\ c2_text' \in Texts
              ELSE /\ pc' = IF r.kind = "panic" THEN "panicked" ELSE "returned_err"
                   /\ UNCHANGED <<c1, c2_text>>
    /\ UNCHANGED <<c1_text, c2, init_lambda, lambda, sin_u1, cos_u1, sin_u2,
                   cos_u2, iter, last, exit, result, appVars>>

\* calc_distance: let c2 = GeoCoordinate::from_str(&c2)?; and then the call
\* Ok(distance(&c1, &c2)), which the solver's actions model.
calc_distance_c2 ==
    /\ pc = "from_str_c2"
    /\ LET r == from_str(c2_text)
       IN  /\ parsed' = Append(parsed, r)
           /\ IF r.kind = "Ok"
              THEN /\ c2' = r.val
                   /\ pc' = "call_distance"
              ELSE /\ pc' = IF r.kind = "panic" THEN "panicked" ELSE "returned_err"
                   /\ UNCHANGED c2
    /\ UNCHANGED <<c1_text, c2_text, c1, init_lambda, lambda, sin_u1, cos_u1,
                   sin_u2, cos_u2, iter, last, exit, result, appVars>>

\* calc_distance called on two texts; the second comes into view when the
\* first has parsed.
InitParse ==
    /\ pc = "from_str_c1"
    /\ c1_text \in Texts
    /\ c2_text = <<>>
    /\ parsed = <<>>
    /\ c1 = GeoCoordinate(Finite(0), Finite(0))
    /\ c2 = GeoCoordinate(Finite(0), Finite(0))
    /\ SolverIdle
    /\ AppIdle

NextParse ==
    \/ calc_distance_c1
    \/ calc_distance_c2

SpecParse == InitParse /\ [][NextParse]_vars

----------------------------------------------------------------------------
(* src/src/app.rs: App, its messages and the fetch it spawns.              *)

\* GetDistance messages the model lets the user send.
MaxRequests == 2

\* Messages waiting in the component's queue at most.
MaxQueue == 2

\* What the user types into the two inputs.
Inputs == {"", "1,1"}

\* FetchState<f64>.  A Success carries the distance the server returned,
\* which the model names by the query it answers.
NotFetching == [state |-> "NotFetching"]

Fetching == [state |-> "Fetching"]

Success(dist) == [state |-> "Success", dist |-> dist]

Failed == [state |-> "Failed"]

\* Msg.  A SetDistanceFetchState carries, for the properties only, the number
\* of the GetDistance it comes from.
SetSrc(v) == [msg |-> "SetSrc", v |-> v]

SetDst(v) == [msg |-> "SetDst", v |-> v]

GetDistance == [msg |-> "GetDistance"]

SetDistanceFetchState(fs, req) ==
    [msg |-> "SetDistanceFetchState", fetch_state |-> fs, req |-> req]

\* GetDistance messages sent so far: handled, or waiting.
Requested ==
    issued + Cardinality({i \in 1..Len(queue) : queue[i].msg = "GetDistance"})

\* The inputs' oninput callbacks and the button's onclick: a message is sent.
user_event ==
    /\ Len(queue) < MaxQueue
    /\ \E m \in {SetSrc(v) : v \in Inputs} \cup {SetDst(v) : v \in Inputs}
                \cup {GetDistance} :
          /\ m = GetDistance => Requested < MaxRequests
          /\ queue' = Append(queue, m)
    /\ UNCHANGED <<src, dst, distance_state, futures, issued, applied, pc,
                   parseVars, solverVars>>

\* App::update, Msg::SetSrc.
update_SetSrc ==
    /\ queue # <<>>
    /\ Head(queue).msg = "SetSrc"
    /\ src' = Head(queue).v
    /\ queue' = Tail(queue)
    /\ UNCHANGED <<dst, distance_state, futures, issued, applied, pc,
                   parseVars, solverVars>>

\* App::update, Msg::SetDst.
update_SetDst ==
    /\ queue # <<>>
    /\ Head(queue).msg = "SetDst"
    /\ dst' = Head(queue).v
    /\ queue' = Tail(queue)
    /\ UNCHANGED <<src, distance_state, futures, issued, applied, pc,
                   parseVars, solverVars>>

\* App::update, Msg::GetDistance: send_future spawns the fetch of the url
\* built from src and dst, send_message queues Fetching.
update_GetDistance ==
    /\ queue # <<>>
    /\ Head(queue).msg = "GetDistance"
    /\ issued' = issued + 1
    /\ futures' = futures \cup {[req |-> issued + 1, url |-> <<src, dst>>]}
    /\ queue' = Append(Tail(queue), SetDistanceFetchState(Fetching, issued + 1))
    /\ UNCHANGED <<src, dst, distance_state, applied, pc, parseVars, solverVars>>

\* App::update, Msg::SetDistanceFetchState.
update_SetDistanceFetchState ==
    /\ queue # <<>>
    /\ Head(queue).msg = "SetDistanceFetchState"
    /\ distance_state' = Head(queue).fetch_state
    /\ applied' = Append(applied, [req |-> Head(queue).req,
                                   state |-> Head(queue).fetch_state.state])
    /\ queue' = Tail(queue)
    /\ UNCHANGED <<src, dst, futures, issued, pc, parseVars, solverVars>>

\* A spawned future completes: fetch_distance returned Ok(dist) or Err(err),
\* and the future's output is sent to the component.  Futures complete in
\* any order.
fetch_distance ==
    \E f \in futures :
        /\ \E fs \in {Success(f.url), Failed} :
              queue' = Append(queue, SetDistanceFetchState(fs, f.req))
        /\ futures' = futures \ {f}
        /\ UNCHANGED <<src, dst, distance_state, issued, applied, pc,
                       parseVars, solverVars>>

\* App::create.
InitApp ==
    /\ AppIdle
    /\ pc = "app"
    /\ c1 = GeoCoordinate(0, 0)
    /\ c2 = GeoCoordinate(0, 0)
    /\ SolverIdle
    /\ ParseIdle

NextApp ==
    \/ user_event
    \/ update_SetSrc
    \/ update_SetDst
    \/ update_GetDistance
    \/ update_SetDistanceFetchState
    \/ fetch_distance

SpecApp == InitApp /\ [][NextApp]_vars

----------------------------------------------------------------------------
(* The claims.                                                             *)

\* The text the i-th call of from_str was given.
TextOf(i) == IF i = 1 THEN c1_text ELSE c2_text

\* A text with no comma, or with a half that, trimmed, is no number.
Malformed(s) ==
    \/ split_once(s) = None
    \/ ~parse_f64(trim(split_once(s).val[1])).ok
    \/ ~parse_f64(trim(split_once(s).val[2])).ok

\* C1: for every text that has no comma, or a half that is no number, the
\* parser returns an error value (Err) and calc_distance returns it to its
\* caller; no text makes the parser panic.
C1_ParseErrorReturned ==
    /\ pc # "panicked"
    /\ \A i \in 1..Len(parsed) :
          Malformed(TextOf(i)) => parsed[i].kind = "Err"

\* C2: distance begins at most MAX_ITERATIONS iterations of the loop body and
\* then returns; it returns None exactly when MAX_ITERATIONS iterations ran
\* and none of them left through the sin_sigma == 0.0 return or the
\* convergence test; the loop is left only for the cap when the cap is hit.
C2_TerminatesWithinCap ==
    /\ iter \in 0..MAX_ITERATIONS
    /\ pc \in {"distance", "approximate", "done"}
    /\ (pc = "approximate" /\ ~LoopRuns(iter)) => iter = MAX_ITERATIONS
    /\ pc = "done" =>
          /\ result = None <=> exit = "exhausted"
          /\ exit = "exhausted" =>
                /\ iter = MAX_ITERATIONS
                /\ ~last.degenerate
                /\ Abs(last.new_lambda - last.lambda) >= CONVERGENCE_THRESHOLD
          /\ exit \in {"degenerate", "converged", "exhausted"}

C2_Witness ==
    /\ pc = "done"
    /\ result = None
    /\ iter = MAX_ITERATIONS

\* C3: distance(P, P) returns Some(0.0) for every valid coordinate P.
C3_Identity ==
    (pc = "done" /\ c1 = c2) => result = Some(Zero)

C3_Witness ==
    /\ pc = "done"
    /\ c1 = c2
    /\ c1.lat = 45 * SCALE
    /\ c1.lng = -180 * SCALE
    /\ result = Some(Zero)

\* v is a whole number of units of 10^-precision km.
Rounded(v, precision) ==
    LET k  == Pow10(precision - 3)
        u0 == (v.r * k) \div SCALE
    IN  \E u \in {u0, u0 + 1} : u < k /\ v.r = MulDivRound[u, SCALE, k]

\* C5: a distance that distance returns as Some(d) is non-negative and is
\* already rounded to PRECISION decimals: rounding it again returns d.
C5_RoundedNonNegative ==
    (pc = "done" /\ result.tag = "Some") =>
        /\ ~result.val.neg
        /\ Rounded(result.val, PRECISION)
        /\ round(result.val, PRECISION) = result.val

C5_Witness ==
    /\ pc = "done"
    /\ exit = "converged"
    /\ result.tag = "Some"
    /\ result.val.m > 0
    /\ result.val.r # 0

\* sin_sigma as the iteration about to run computes it.
SinSigmaNow ==
    sin_sigma(sin_u1, cos_u1, sin_u2, cos_u2, FSin[lambda], FCos[lambda])

\* C7: an iteration of the loop in which sin_sigma is 0, the first or a
\* later one, returns Some(0.0) at once: it is the last iteration, it makes
\* no convergence test and no final evaluation, and lambda stays as it was.
C7_DegenerateShortcut ==
    [][(pc = "approximate" /\ iter < MAX_ITERATIONS /\ SinSigmaNow = 0) =>
          /\ pc' = "done"
          /\ exit' = "degenerate"
          /\ result' = Some(Zero)
          /\ iter' = iter + 1
          /\ lambda' = lambda]_vars

C7_Witness ==
    /\ pc = "done"
    /\ exit = "degenerate"
    /\ iter = 2
    /\ result = Some(Zero)

\* The coefficient C as the Vincenty formula gives it.
FormulaC(cq) ==
    FMul[FMul[RDiv[FLATTENING_ELIPSOID, 16], cq],
         4 * ONE + FMul[FLATTENING_ELIPSOID, 4 * ONE - 3 * cq]]

\* C8: every iteration that gets as far as C computes it as
\* (f / 16) * cosSqAlpha * (4 + f * (4 - 3 * cosSqAlpha)).
C8_CoefficientC ==
    (iter > 0 /\ ~last.degenerate) => last.c = FormulaC(last.cos_sqalpha)

\* C9: distance starts the loop with lambda = init_lambda = the longitude
\* difference in radians.  An iteration that does not return at sin_sigma = 0
\* computes new_lambda from the current lambda; if |new_lambda - lambda| is
\* below the threshold the solver returns, from that iteration's values,
\* round(evaluate(cos_sqalpha, sin_sigma, cos2_sigma_m, cos_sigma, sigma));
\* otherwise lambda becomes new_lambda and the loop goes on.
C9_ConvergenceStep ==
    [][/\ (pc = "distance" /\ pc' = "approximate") =>
             /\ init_lambda' = to_radians(c2.lng - c1.lng)
             /\ lambda' = init_lambda'
       /\ (pc = "approximate" /\ iter' = iter + 1 /\ ~last'.degenerate) =>
             /\ last'.lambda = lambda
             /\ IF Abs(last'.new_lambda - lambda) < CONVERGENCE_THRESHOLD
                THEN /\ pc' = "done"
                     /\ exit' = "converged"
                     /\ result' = Some(round(evaluate(last'.cos_sqalpha,
                                                      last'.sin_sigma,
                                                      last'.cos2_sigma_m,
                                                      last'.cos_sigma,
                                                      last'.sigma),
                                             PRECISION))
                ELSE /\ pc' = "approximate"
                     /\ lambda' = last'.new_lambda
                     /\ init_lambda' = init_lambda]_vars

C9_Witness ==
    /\ pc = "done"
    /\ exit = "converged"
    /\ iter >= 3
    /\ last.lambda # init_lambda

FiniteCoordinate(g) == g.lat.class = "finite" /\ g.lng.class = "finite"

\* C6: every GeoCoordinate the parser returns has a finite lat and a finite
\* lng, so calc_distance calls distance on finite fields only.
C6_ParsedFieldsFinite ==
    /\ \A i \in 1..Len(parsed) :
          parsed[i].kind = "Ok" => FiniteCoordinate(parsed[i].val)
    /\ pc = "call_distance" => FiniteCoordinate(c1) /\ FiniteCoordinate(c2)

\* No SetDistanceFetchState and no GetDistance is waiting or yet to come.
Quiescent ==
    /\ futures = {}
    /\ \A i \in 1..Len(queue) : queue[i].msg \in {"SetSrc", "SetDst"}

\* C10: the outcome of a request is applied only after that request's
\* Fetching was, and once every fetch has completed and every message is
\* handled, distance_state is the outcome (Success or Failed) of the last
\* GetDistance that was handled.
C10_LatestRequestWins ==
    /\ \A i \in 1..Len(applied) :
          applied[i].state \in {"Success", "Failed"} =>
              \E j \in 1..(i - 1) :
                  applied[j].req = applied[i].req /\ applied[j].state = "Fetching"
    /\ (Quiescent /\ issued > 0) =>
          /\ distance_state.state \in {"Success", "Failed"}
          /\ applied[Len(applied)].req = issued

=============================================================================
